---- MODULE Spec2Model ----
(***************************************************************************)
(* A model of the VTEP flood-list updater.                                 *)
(*                                                                         *)
(* Two programs are modelled:                                              *)
(*   "script"   src/update_vtep.py               (eAPI only, sequential)   *)
(*   "package"  src/arista_vtep_update/__init__.py (SSH or eAPI, one       *)
(*              worker thread per host)                                    *)
(*                                                                         *)
(* Spec      is a run of main(): hosts are loaded and counted, the         *)
(*           password is read, the hosts are resolved, one dispatch per    *)
(*           host is made and its result line printed.                     *)
(* SpecBuild applies the pure functions (the peer-list comprehension and   *)
(*           build_flood_commands) to bounded inputs and plays the         *)
(*           commands on a device's flood list, twice.                     *)
(***************************************************************************)
EXTENDS Integers, Sequences, FiniteSets, Bags, TLC

\* ------------------------------------------------------------------ bounds

\* The longest host list of a run of main().
MaxHosts == 3

\* The longest resolved-address list the pure functions are applied to.
MaxIps == 3

\* ------------------------------------------------------------- value sets

\* Host names a user may give, in the order they are used.
HostPool == <<"leaf1", "leaf2", "leaf3", "leaf4", "leaf5">>

\* Addresses gethostbyname may answer in a run of main().
ResolvableTo == {"192.0.2.1", "192.0.2.2"}

\* Addresses of the pure-function inputs and of a device's flood list.
AddrPool == {"192.0.2.1", "192.0.2.2", "192.0.2.3"}

Variants == {"script", "package"}

\* args.username (-u is required) and the string getpass() returns.
Username == "admin"

TypedPassword == "pass"

VARIABLES
    variant,     \* which program runs
    use_eapi,    \* args.use_eapi (the script has eAPI only)
    pc,          \* where main() is
    hosts,       \* the host list of main()
    lookups,     \* the hosts gethostbyname was called for, in order
    ips,         \* resolve_hosts' result so far
    password,    \* getpass() result, "" before the prompt
    cursor,      \* hosts the for loop / dict comprehension has consumed
    futures,     \* package: per host index, the future's state and result
    calls,       \* every send_eapi_commands / send_ssh_commands call made
    out,         \* every line printed, in order
    rc,          \* how main() ended
    writing,     \* the threads that are inside print() for a result line
    sPc,         \* SpecSsh: where send_ssh_commands is
    sCommands,   \* SpecSsh: the commands argument
    sClient,     \* SpecSsh: the SSHClient's connection
    sFullCmd,    \* SpecSsh: full_cmd, as given to exec_command
    sExit,       \* SpecSsh: the remote exit status
    sStdout,     \* SpecSsh: what the remote command wrote to stdout
    sStderr,     \* SpecSsh: what the remote command wrote to stderr
    sResult,     \* SpecSsh: what the call returned or raised
    bPc,         \* SpecBuild: step
    bIdx,        \* SpecBuild: the host index i
    bPeers,      \* SpecBuild: remote_vteps of host i
    bCmds,       \* SpecBuild: commands built in the current run
    bCmds1,      \* SpecBuild: commands built in the first run
    bPrior,      \* SpecBuild: the device's flood list before the first run
    bFlood,      \* SpecBuild: the device's flood list now
    bFlood1      \* SpecBuild: the device's flood list after the first run

mainVars == <<pc, hosts, lookups, ips, password, cursor, futures, calls, out, rc, writing>>

sshVars == <<sPc, sCommands, sClient, sFullCmd, sExit, sStdout, sStderr, sResult>>

buildVars == <<bPc, bIdx, bPeers, bCmds, bCmds1, bPrior, bFlood, bFlood1>>

vars == <<variant, use_eapi, mainVars, buildVars, sshVars>>

\* ---------------------------------------------------------- pure functions

Range(s) == {s[k] : k \in 1..Len(s)}

RECURSIVE RemoveFirst(_, _)
RemoveFirst(s, x) ==
    IF s = <<>> THEN <<>>
    ELSE IF Head(s) = x THEN Tail(s)
    ELSE <<Head(s)>> \o RemoveFirst(Tail(s), x)

\* Mutant of remote_vteps: a copy of ips with ip removed once (list.remove).
remote_vteps_remove_once(all_ips, ip) == RemoveFirst(all_ips, ip)

RECURSIVE remote_vteps_distinct(_, _)
\* Mutant of remote_vteps: an address that several other hosts share is
\* listed once.
remote_vteps_distinct(all_ips, ip) ==
    IF all_ips = <<>> THEN <<>>
    ELSE LET rest == remote_vteps_distinct(SubSeq(all_ips, 1, Len(all_ips) - 1), ip)
             last == all_ips[Len(all_ips)]
         IN  IF last = ip \/ last \in Range(rest) THEN rest ELSE Append(rest, last)

\* [other for other in ips if other != ip]
remote_vteps(all_ips, ip) == SelectSeq(all_ips, LAMBDA other : other # ip)

\* The CLI command strings, as their words.
CmdInterface == <<"interface", "Vxlan1">>

CmdClear == <<"no", "vxlan", "flood", "vtep">>

CmdExit == <<"exit">>

AddPrefix == <<"vxlan", "flood", "vtep">>

\* f"vxlan flood vtep {ip}"
CmdAdd(ip) == Append(AddPrefix, ip)

RECURSIVE AppendAddsReversed(_, _)
\* Mutant of AppendAdds: the peers are walked from the last to the first.
AppendAddsReversed(commands, remote_vtep_ips) ==
    IF remote_vtep_ips = <<>>
    THEN commands
    ELSE AppendAddsReversed(Append(commands, CmdAdd(remote_vtep_ips[Len(remote_vtep_ips)])),
                            SubSeq(remote_vtep_ips, 1, Len(remote_vtep_ips) - 1))

RECURSIVE AppendAdds(_, _)
\* for ip in remote_vtep_ips: commands.append(f"vxlan flood vtep {ip}")
AppendAdds(commands, remote_vtep_ips) ==
    IF remote_vtep_ips = <<>>
    THEN commands
    ELSE AppendAdds(Append(commands, CmdAdd(Head(remote_vtep_ips))),
                    Tail(remote_vtep_ips))

\* Mutant of build_flood_commands: no program clears the flood list first.
build_flood_commands_additive(v, remote_vtep_ips) ==
    Append(AppendAdds(<<CmdInterface>>, remote_vtep_ips), CmdExit)

\* build_flood_commands of the program v: only the package's clears first.
build_flood_commands(v, remote_vtep_ips) ==
    LET start == IF v = "package"
                 THEN <<CmdInterface, CmdClear>>
                 ELSE <<CmdInterface>>
    IN Append(AppendAdds(start, remote_vtep_ips), CmdExit)

\* ------------------------------------------------------------ transports

\* if args.use_eapi: send_eapi_commands(...) else: send_ssh_commands(...);
\* the script has send_eapi_commands only.
Transport == IF variant = "script" \/ use_eapi THEN "eapi" ELSE "ssh"

SendFunction == IF Transport = "eapi" THEN "send_eapi_commands" ELSE "send_ssh_commands"

\* How one transport call can end.
\*   ssh:  client.connect is refused, client.connect rejects the password,
\*         the remote command writes to stderr, or out is returned.
\*   eapi: requests.post cannot connect, raise_for_status sees a status that
\*         is not a success, or response.json() is returned.
Outcomes(transport) ==
    IF transport = "ssh"
    THEN {"ok", "connection refused", "authentication failed", "stderr output"}
    ELSE {"ok", "connection refused", "http error status"}

\* The exception class a failing transport call raises.
Raised(transport, kind) ==
    IF transport = "ssh"
    THEN CASE kind = "connection refused"    -> "socket.error"
           [] kind = "authentication failed" -> "paramiko.AuthenticationException"
           [] kind = "stderr output"         -> "RuntimeError"
    ELSE CASE kind = "connection refused"    -> "requests.ConnectionError"
           [] kind = "http error status"     -> "requests.HTTPError"

\* The classes an exception is an instance of.
Bases(cls) ==
    CASE cls = "socket.error" ->
            {"socket.error", "OSError", "Exception"}
      [] cls = "paramiko.AuthenticationException" ->
            {"paramiko.AuthenticationException", "paramiko.SSHException", "Exception"}
      [] cls = "RuntimeError" ->
            {"RuntimeError", "Exception"}
      [] cls = "requests.ConnectionError" ->
            {"requests.ConnectionError", "requests.RequestException", "OSError", "Exception"}
      [] cls = "requests.HTTPError" ->
            {"requests.HTTPError", "requests.RequestException", "OSError", "Exception"}

\* The classes the except clause around a dispatch names.
Handled(v) ==
    IF v = "package"
    THEN {"requests.RequestException", "RuntimeError", "paramiko.SSHException"}
    ELSE {"requests.RequestException"}

Caught(v, cls) == Bases(cls) \cap Handled(v) # {}

\* ------------------------------------------------------------------ main()

\* if len(hosts) < 2
MinHosts == 2

\* Mutant of TooFew: the comparison is off by one.
TooFewOffByOne(n) == n < MinHosts - 1

Min(a, b) == IF a < b THEN a ELSE b

\* len(hosts) < 2
TooFew(n) == n < MinHosts

\* Mutant of WorkItems: the last pair is left out.
WorkItemsButLast == 1..(Min(Len(hosts), Len(ips)) - 1)

\* zip(hosts, ips): the indices of the pairs.
WorkItems == 1..Min(Len(hosts), Len(ips))

NItems == Cardinality(WorkItems)

\* Mutant of WorkerArgs: every dispatch sees the ip of the last pair (the
\* loop variable is read when the worker runs).
WorkerArgsLateBound(i) == [host |-> hosts[i], ip |-> ips[Len(ips)]]

\* The arguments the dispatch of the i-th pair of zip(hosts, ips) is given.
WorkerArgs(i) == [host |-> hosts[i], ip |-> ips[i]]

\* A printed line: print(f"{host}: ...") or a pre-flight diagnostic.
\* from is the host whose transport call produced text ("" for a diagnostic).
Line(stream, kind, host, from, text) ==
    [stream |-> stream, kind |-> kind, host |-> host, from |-> from, text |-> text]

\* Mutant of Call: the commands are cleared first only for the SSH transport.
CallClearsOnlyOverSsh(i, host, ip) ==
    [idx      |-> i,
     fn       |-> SendFunction,
     host     |-> host,
     username |-> Username,
     password |-> password,
     commands |-> build_flood_commands(IF Transport = "ssh" THEN "package" ELSE "script",
                                       remote_vteps(ips, ip))]

\* The call a dispatch for (host, ip) makes.
Call(i, host, ip) ==
    [idx      |-> i,
     fn       |-> SendFunction,
     host     |-> host,
     username |-> Username,
     password |-> password,
     commands |-> build_flood_commands(variant, remote_vteps(ips, ip))]

MainInit ==
    /\ pc = "start"
    /\ hosts = <<>>
    /\ lookups = <<>>
    /\ ips = <<>>
    /\ password = ""
    /\ cursor = 0
    /\ futures = <<>>
    /\ calls = EmptyBag
    /\ out = <<>>
    /\ rc = "none"
    /\ writing = {}

\* send_ssh_commands is not being followed.
SshIdle ==
    /\ sPc = "off"
    /\ sCommands = <<>>
    /\ sClient = "none"
    /\ sFullCmd = <<>>
    /\ sExit = 0
    /\ sStdout = ""
    /\ sStderr = ""
    /\ sResult = [how |-> "none", value |-> ""]

BuildIdle ==
    /\ bPc = "off"
    /\ bIdx = 0
    /\ bPeers = <<>>
    /\ bCmds = <<>>
    /\ bCmds1 = <<>>
    /\ bPrior = {}
    /\ bFlood = {}
    /\ bFlood1 = {}

\* The state when main(argv) is entered with parse_args about to return.
\* --use-eapi exists in the package only.
Init ==
    /\ variant \in Variants
    /\ use_eapi \in IF variant = "script" THEN {TRUE} ELSE BOOLEAN
    /\ MainInit
    /\ BuildIdle
    /\ SshIdle

\* args = parse_args(argv); hosts = list(args.hosts);
\* if args.hosts_file: hosts.extend(read_hosts_from_file(args.hosts_file)).
\* The script's parser takes nargs="+" (at least one host, no hosts file);
\* the package's takes nargs="*" and -f. An unreadable file ends the run
\* in read_hosts_from_file with sys.exit(1).
LoadHosts ==
    /\ pc = "start"
    /\ \E p \in 0..MaxHosts, file \in {"none", "unreadable", "readable"} :
         /\ variant = "script" => p >= 1 /\ file = "none"
         /\ IF file = "unreadable"
            THEN /\ out' = Append(out, Line("stderr", "hosts-file", "", "", "Failed to read hosts file"))
                 /\ rc' = "sys.exit(1)"
                 /\ pc' = "end"
                 /\ hosts' = SubSeq(HostPool, 1, p)
            ELSE /\ \E f \in 0..(MaxHosts - p) :
                      /\ file = "none" => f = 0
                      /\ hosts' = SubSeq(HostPool, 1, p + f)
                 /\ pc' = "count"
                 /\ UNCHANGED <<out, rc>>
    /\ UNCHANGED <<variant, use_eapi, lookups, ips, password, cursor, futures, calls, writing, buildVars, sshVars>>

\* if len(hosts) < 2: print(...); return 1
CheckCount ==
    /\ pc = "count"
    /\ IF TooFew(Len(hosts))
       THEN /\ out' = Append(out, Line("stderr", "usage", "", "", "At least two hosts must be specified"))
            /\ rc' = "return 1"
            /\ pc' = "end"
       ELSE /\ pc' = "getpass"
            /\ UNCHANGED <<out, rc>>
    /\ UNCHANGED <<variant, use_eapi, hosts, lookups, ips, password, cursor, futures, calls, writing, buildVars, sshVars>>

\* password = getpass()
GetPass ==
    /\ pc = "getpass"
    /\ password' = TypedPassword
    /\ pc' = "resolve"
    /\ UNCHANGED <<variant, use_eapi, hosts, lookups, ips, cursor, futures, calls, out, rc, writing, buildVars, sshVars>>

\* Where main() goes on when resolve_hosts has returned.
AfterResolve == IF variant = "script" THEN "dispatch" ELSE "submit"

\* Mutant of OnGaierror: the failure is printed and the loop goes on.
OnGaierrorContinue(host) ==
    /\ out' = Append(out, Line("stderr", "unresolved", host, "", "Unable to resolve"))
    /\ rc' = rc
    /\ pc' = IF Len(lookups') = Len(hosts) THEN AfterResolve ELSE "resolve"
    /\ ips' = ips

\* except socket.gaierror: print(f"Unable to resolve {host}: {exc}"); sys.exit(1)
OnGaierror(host) ==
    /\ out' = Append(out, Line("stderr", "unresolved", host, "", "Unable to resolve"))
    /\ rc' = "sys.exit(1)"
    /\ pc' = "end"
    /\ ips' = ips

\* One turn of resolve_hosts' loop: ip = socket.gethostbyname(host), then
\* resolved.append(ip); the function returns after the last host.
ResolveNext ==
    /\ pc = "resolve"
    /\ Len(lookups) < Len(hosts)
    /\ LET host == hosts[Len(lookups) + 1]
       IN /\ lookups' = Append(lookups, host)
          /\ \E answer \in ResolvableTo \cup {"gaierror"} :
               IF answer = "gaierror"
               THEN OnGaierror(host)
               ELSE /\ ips' = Append(ips, answer)
                    /\ pc' = IF Len(lookups') = Len(hosts) THEN AfterResolve ELSE "resolve"
                    /\ UNCHANGED <<out, rc>>
    /\ UNCHANGED <<variant, use_eapi, hosts, password, cursor, futures, calls, writing, buildVars, sshVars>>

\* Mutant of ResultLine: every line is printed under the first host.
ResultLineFirstHost(label, host, kind) ==
    IF kind = "ok"
    THEN Line("stdout", "result", hosts[1], host, kind)
    ELSE Line("stderr", "failed", hosts[1], host, kind)

\* The line main() prints for a dispatch that ended with kind: the result
\* under the host the dispatch returned, or the failure under label.
ResultLine(label, host, kind) ==
    IF kind = "ok"
    THEN Line("stdout", "result", host, host, kind)
    ELSE Line("stderr", "failed", label, host, kind)

\* ----------------------------------------------- the script's for loop

\* One turn of: for host, ip in zip(args.hosts, ips): build the commands,
\* send_eapi_commands(...), print the result; except RequestException:
\* print the failure and continue. Another exception leaves main().
ScriptDispatch ==
    /\ variant = "script"
    /\ pc = "dispatch"
    /\ cursor < NItems
    /\ LET i == cursor + 1
           a == WorkerArgs(i)
       IN /\ cursor' = i
          /\ calls' = calls (+) SetToBag({Call(i, a.host, a.ip)})
          /\ \E kind \in Outcomes(Transport) :
               IF kind = "ok" \/ Caught(variant, Raised(Transport, kind))
               THEN /\ out' = Append(out, ResultLine(a.host, a.host, kind))
                    /\ UNCHANGED <<pc, rc>>
               ELSE /\ rc' = "exception"
                    /\ pc' = "end"
                    /\ out' = out
    /\ UNCHANGED <<variant, use_eapi, hosts, lookups, ips, password, futures, writing, buildVars, sshVars>>

\* The loop is over: return 0
ScriptReturn ==
    /\ variant = "script"
    /\ pc = "dispatch"
    /\ cursor = NItems
    /\ rc' = "return 0"
    /\ pc' = "end"
    /\ UNCHANGED <<variant, use_eapi, hosts, lookups, ips, password, cursor, futures, calls, out, writing, buildVars, sshVars>>

\* ------------------------------------------ the package's thread pool

\* One entry of the dict comprehension: executor.submit(worker, host, ip): host.
\* as_completed is called when every pair has been submitted.
Submit ==
    /\ variant = "package"
    /\ pc = "submit"
    /\ cursor < NItems
    /\ LET i == cursor + 1
           a == WorkerArgs(i)
       IN /\ cursor' = i
          /\ futures' = Append(futures, [state |-> "pending", label |-> hosts[i],
                                         host |-> a.host, ip |-> a.ip, kind |-> "none"])
          /\ pc' = IF i = NItems THEN "collect" ELSE "submit"
    /\ UNCHANGED <<variant, use_eapi, hosts, lookups, ips, password, calls, out, rc, writing, buildVars, sshVars>>

\* ThreadPoolExecutor(max_workers=len(hosts))
max_workers == Len(hosts)

Running == {j \in 1..Len(futures) : futures[j].state = "running"}

\* A pool thread takes the work item: worker(host, ip) computes remote_vteps
\* and commands and enters send_eapi_commands or send_ssh_commands.
\* At most max_workers threads run at once. Leaving the with block calls
\* shutdown(wait=True), which cancels nothing: a submitted item is run
\* whatever main() is doing.
WorkerStart(i) ==
    /\ i \in 1..Len(futures)
    /\ futures[i].state = "pending"
    /\ Cardinality(Running) < max_workers
    /\ futures' = [futures EXCEPT ![i].state = "running"]
    /\ calls' = calls (+) SetToBag({Call(i, futures[i].host, futures[i].ip)})
    /\ UNCHANGED <<variant, use_eapi, pc, hosts, lookups, ips, password, cursor, out, rc, writing, buildVars, sshVars>>

\* The transport call of worker i returns or raises; the future is done.
WorkerFinish(i) ==
    /\ i \in 1..Len(futures)
    /\ futures[i].state = "running"
    /\ \E kind \in Outcomes(Transport) :
         futures' = [futures EXCEPT ![i].state = "done", ![i].kind = kind]
    /\ UNCHANGED <<variant, use_eapi, pc, hosts, lookups, ips, password, cursor, calls, out, rc, writing, buildVars, sshVars>>

\* The thread main() runs in.
MainThread == "MainThread"

\* Mutant of Printer: worker prints its own result before it returns.
PrinterIsWorker(i) == futures[i].host

\* The thread that prints the line of future i: the print calls are in the
\* as_completed loop of main(); worker has none.
Printer(i) == MainThread

\* One turn of: for future in as_completed(future_to_host): future.result()
\* returns (h, result), which is printed, or raises; an exception of the
\* except clause is printed under future_to_host[future], another one leaves
\* the loop and the with block.
Collect ==
    /\ variant = "package"
    /\ pc = "collect"
    /\ MainThread \notin writing
    /\ \E i \in 1..Len(futures) :
         /\ futures[i].state = "done"
         /\ futures' = [futures EXCEPT ![i].state = "yielded"]
         /\ LET fu == futures[i]
            IN IF fu.kind = "ok" \/ Caught(variant, Raised(Transport, fu.kind))
               THEN /\ out' = Append(out, ResultLine(fu.label, fu.host, fu.kind))
                    /\ writing' = writing \cup {Printer(i)}
                    /\ pc' = pc
               ELSE /\ pc' = "unwind"
                    /\ out' = out
                    /\ writing' = writing
    /\ UNCHANGED <<variant, use_eapi, hosts, lookups, ips, password, cursor, calls, rc, buildVars, sshVars>>

\* The print() call of a result line returns: the line is written.
PrintReturns ==
    /\ \E t \in writing : writing' = writing \ {t}
    /\ UNCHANGED <<variant, use_eapi, pc, hosts, lookups, ips, password, cursor, futures, calls, out, rc, buildVars, sshVars>>

AllYielded == \A i \in 1..Len(futures) : futures[i].state = "yielded"

\* Mutant of AllFinished: the pool is shut down without waiting.
AllFinishedNoWait == TRUE

AllFinished == \A i \in 1..Len(futures) : futures[i].state \in {"done", "yielded"}

\* as_completed is exhausted; the with block ends; return 0
PackageReturn ==
    /\ variant = "package"
    /\ pc = "collect"
    /\ MainThread \notin writing
    /\ AllYielded
    /\ rc' = "return 0"
    /\ pc' = "end"
    /\ UNCHANGED <<variant, use_eapi, hosts, lookups, ips, password, cursor, futures, calls, out, writing, buildVars, sshVars>>

\* An exception is leaving the with block: ThreadPoolExecutor.__exit__ waits
\* for every worker, then the exception leaves main().
Unwind ==
    /\ variant = "package"
    /\ pc = "unwind"
    /\ AllFinished
    /\ rc' = "exception"
    /\ pc' = "end"
    /\ UNCHANGED <<variant, use_eapi, hosts, lookups, ips, password, cursor, futures, calls, out, writing, buildVars, sshVars>>

Next ==
    \/ LoadHosts
    \/ CheckCount
    \/ GetPass
    \/ ResolveNext
    \/ ScriptDispatch
    \/ ScriptReturn
    \/ Submit
    \/ \E i \in 1..MaxHosts : WorkerStart(i)
    \/ \E i \in 1..MaxHosts : WorkerFinish(i)
    \/ Collect
    \/ PrintReturns
    \/ PackageReturn
    \/ Unwind

Spec == Init /\ [][Next]_vars

\* ------------------------------------------------- the device's flood list

RECURSIVE ApplyCommands(_, _)
\* The flood list of interface Vxlan1 after the commands are entered in
\* order: 'no vxlan flood vtep' removes all currently configured remote VTEP
\* addresses, 'vxlan flood vtep <ip>' adds one.
ApplyCommands(commands, flood) ==
    IF commands = <<>>
    THEN flood
    ELSE LET c == Head(commands)
             after == IF c = CmdClear THEN {}
                      ELSE IF Len(c) = Len(AddPrefix) + 1 /\ SubSeq(c, 1, Len(AddPrefix)) = AddPrefix
                           THEN flood \cup {c[Len(c)]}
                           ELSE flood
         IN ApplyCommands(Tail(commands), after)

\* ------------------------------- the pure functions on bounded inputs

\* The tool is run twice on the same host list and the same resolution.
Runs == {"first", "second"}

\* Any program, any resolved-address list of at least two hosts, any host
\* index of it, any flood list on that host's device.
InitBuild ==
    /\ variant \in Variants
    /\ use_eapi \in IF variant = "script" THEN {TRUE} ELSE BOOLEAN
    /\ pc = "off"
    /\ \E n \in MinHosts..MaxIps :
         /\ hosts = SubSeq(HostPool, 1, n)
         /\ ips \in [1..n -> AddrPool]
    /\ lookups = hosts
    /\ password = TypedPassword
    /\ cursor = 0
    /\ futures = <<>>
    /\ calls = EmptyBag
    /\ out = <<>>
    /\ rc = "none"
    /\ writing = {}
    /\ SshIdle
    /\ bPc = <<"peers", "first">>
    /\ bIdx \in 1..Len(ips)
    /\ bPeers = <<>>
    /\ bCmds = <<>>
    /\ bCmds1 = <<>>
    /\ bPrior \in SUBSET AddrPool
    /\ bFlood = bPrior
    /\ bFlood1 = {}

\* remote_vteps = [other for other in ips if other != ip]
ComputePeers(run) ==
    /\ bPc = <<"peers", run>>
    /\ bPeers' = remote_vteps(ips, WorkerArgs(bIdx).ip)
    /\ bPc' = <<"build", run>>
    /\ UNCHANGED <<variant, use_eapi, mainVars, sshVars, bIdx, bCmds, bCmds1, bPrior, bFlood, bFlood1>>

\* commands = build_flood_commands(remote_vteps)
BuildCommands(run) ==
    /\ bPc = <<"build", run>>
    /\ bCmds' = build_flood_commands(variant, bPeers)
    /\ bCmds1' = IF run = "first" THEN bCmds' ELSE bCmds1
    /\ bPc' = <<"apply", run>>
    /\ UNCHANGED <<variant, use_eapi, mainVars, sshVars, bIdx, bPeers, bPrior, bFlood, bFlood1>>

\* The device of host bIdx enters the commands it was sent.
DeviceApplies(run) ==
    /\ bPc = <<"apply", run>>
    /\ bFlood' = ApplyCommands(bCmds, bFlood)
    /\ bFlood1' = IF run = "first" THEN bFlood' ELSE bFlood1
    /\ bPc' = IF run = "first" THEN <<"peers", "second">> ELSE <<"done", run>>
    /\ UNCHANGED <<variant, use_eapi, mainVars, sshVars, bIdx, bPeers, bCmds, bCmds1, bPrior>>

NextBuild ==
    \/ \E run \in Runs : ComputePeers(run)
    \/ \E run \in Runs : BuildCommands(run)
    \/ \E run \in Runs : DeviceApplies(run)

SpecBuild == InitBuild /\ [][NextBuild]_vars

\* ------------------------------------------------- send_ssh_commands

RECURSIVE Join(_, _)
\* sep.join(parts), as words: the words of each part, sep between two parts.
Join(sep, parts) ==
    IF parts = <<>> THEN <<>>
    ELSE IF Len(parts) = 1 THEN Head(parts)
    ELSE Head(parts) \o <<sep>> \o Join(sep, Tail(parts))

\* cli_cmds = " ; ".join(["configure terminal"] + commands)
\* full_cmd = f"Cli -p 15 -c '{cli_cmds}'"
FullCmd(commands) ==
    <<"Cli", "-p", "15", "-c", "'">>
        \o Join(";", <<(<<"configure", "terminal">>)>> \o commands)
        \o <<"'">>

\* Bytes a remote stream may hold: nothing, text, bytes that are no UTF-8.
InvalidBytes == "<bytes that are not UTF-8>"

RemoteBytes == {"", "% Invalid input", InvalidBytes}

\* bytes.decode() raises UnicodeDecodeError for bytes that are no UTF-8.
Decodable(raw) == raw # InvalidBytes

\* bytes.decode() of decodable bytes.
Decode(raw) == raw

ExitStatuses == {0, 1}

Returned(value) == [how |-> "returned", value |-> value]

RaisedWith(cls, value) == [how |-> cls, value |-> value]

\* Mutant of SshVerdict: the remote exit status decides.
SshVerdictByExitStatus(status, o, err) ==
    IF status # 0 THEN RaisedWith("RuntimeError", err) ELSE Returned(o)

\* if err: raise RuntimeError(err)
\* return out
\* (the exit status was waited for, and is not looked at)
SshVerdict(status, o, err) ==
    IF err # "" THEN RaisedWith("RuntimeError", err) ELSE Returned(o)

\* A call of send_ssh_commands with the commands built for some peer list.
InitSsh ==
    /\ variant = "package"
    /\ use_eapi = FALSE
    /\ pc = "off"
    /\ hosts = <<>>
    /\ lookups = <<>>
    /\ ips = <<>>
    /\ password = TypedPassword
    /\ cursor = 0
    /\ futures = <<>>
    /\ calls = EmptyBag
    /\ out = <<>>
    /\ rc = "none"
    /\ writing = {}
    /\ BuildIdle
    /\ sPc = "connect"
    /\ \E n \in 0..(MaxIps - 1) : \E peers \in [1..n -> AddrPool] :
         sCommands = build_flood_commands(variant, peers)
    /\ sClient = "none"
    /\ sFullCmd = <<>>
    /\ sExit = 0
    /\ sStdout = ""
    /\ sStderr = ""
    /\ sResult = [how |-> "none", value |-> ""]

\* client = paramiko.SSHClient(); client.connect(...): connects, or raises
\* socket.error or AuthenticationException, which leaves the function.
SshConnect ==
    /\ sPc = "connect"
    /\ \E kind \in {"ok", "connection refused", "authentication failed"} :
         IF kind = "ok"
         THEN /\ sClient' = "connected"
              /\ sPc' = "exec"
              /\ sResult' = sResult
         ELSE /\ sClient' = sClient
              /\ sPc' = "end"
              /\ sResult' = RaisedWith(Raised("ssh", kind), kind)
    /\ UNCHANGED <<variant, use_eapi, mainVars, buildVars, sCommands, sFullCmd, sExit, sStdout, sStderr>>

\* stdin, stdout, stderr = client.exec_command(full_cmd): the command is
\* started, or SSHException is raised (the server rejects the request or the
\* session ended), which leaves the function.
SshExec ==
    /\ sPc = "exec"
    /\ sFullCmd' = FullCmd(sCommands)
    /\ \E started \in BOOLEAN :
         IF started
         THEN /\ sPc' = "wait"
              /\ sResult' = sResult
         ELSE /\ sPc' = "end"
              /\ sResult' = RaisedWith("paramiko.SSHException", "exec_command")
    /\ UNCHANGED <<variant, use_eapi, mainVars, buildVars, sCommands, sClient, sExit, sStdout, sStderr>>

\* stdout.channel.recv_exit_status()
SshWaitExit ==
    /\ sPc = "wait"
    /\ sExit' \in ExitStatuses
    /\ sPc' = "read stdout"
    /\ UNCHANGED <<variant, use_eapi, mainVars, buildVars, sCommands, sClient, sFullCmd, sStdout, sStderr, sResult>>

\* out = stdout.read().decode(): UnicodeDecodeError leaves the function.
SshReadStdout ==
    /\ sPc = "read stdout"
    /\ \E raw \in (RemoteBytes \ {"% Invalid input"}) \cup {"Vxlan1 configured"} :
         IF Decodable(raw)
         THEN /\ sStdout' = Decode(raw)
              /\ sPc' = "read stderr"
              /\ sResult' = sResult
         ELSE /\ sStdout' = sStdout
              /\ sPc' = "end"
              /\ sResult' = RaisedWith("UnicodeDecodeError", "stdout")
    /\ UNCHANGED <<variant, use_eapi, mainVars, buildVars, sCommands, sClient, sFullCmd, sExit, sStderr>>

\* err = stderr.read().decode(): UnicodeDecodeError leaves the function.
SshReadStderr ==
    /\ sPc = "read stderr"
    /\ \E raw \in RemoteBytes :
         IF Decodable(raw)
         THEN /\ sStderr' = Decode(raw)
              /\ sPc' = "close"
              /\ sResult' = sResult
         ELSE /\ sStderr' = sStderr
              /\ sPc' = "end"
              /\ sResult' = RaisedWith("UnicodeDecodeError", "stderr")
    /\ UNCHANGED <<variant, use_eapi, mainVars, buildVars, sCommands, sClient, sFullCmd, sExit, sStdout>>

\* client.close()
SshClose ==
    /\ sPc = "close"
    /\ sClient' = "closed"
    /\ sPc' = "verdict"
    /\ UNCHANGED <<variant, use_eapi, mainVars, buildVars, sCommands, sFullCmd, sExit, sStdout, sStderr, sResult>>

\* if err: raise RuntimeError(err); return out
SshReturn ==
    /\ sPc = "verdict"
    /\ sResult' = SshVerdict(sExit, sStdout, sStderr)
    /\ sPc' = "end"
    /\ UNCHANGED <<variant, use_eapi, mainVars, buildVars, sCommands, sClient, sFullCmd, sExit, sStdout, sStderr>>

NextSsh ==
    \/ SshConnect
    \/ SshExec
    \/ SshWaitExit
    \/ SshReadStdout
    \/ SshReadStderr
    \/ SshClose
    \/ SshReturn

SpecSsh == InitSsh /\ [][NextSsh]_vars

\* ================================================================ claims

\* ---- SpecBuild: the peer list and the command builder

PeersComputed == bPc # <<"peers", "first">>

CommandsBuilt == bPc \notin {<<"peers", "first">>, <<"build", "first">>}

OwnIp == ips[bIdx]

\* The host indices whose resolved address differs from host bIdx's.
OtherAddressed == {j \in 1..Len(ips) : ips[j] # OwnIp}

\* C1 as stated: the peer list of host i excludes i's own resolved address
\* and holds the resolved address of every other host index, once each, in
\* host-list order (the list is ips with position i taken out).
C1_PeersAreEveryOtherIndex ==
    PeersComputed =>
        /\ OwnIp \notin Range(bPeers)
        /\ Len(bPeers) = Len(ips) - 1
        /\ \A j \in 1..Len(ips) :
             j # bIdx => bPeers[IF j < bIdx THEN j ELSE j - 1] = ips[j]

\* C1 amended: the peer list of host i excludes i's own resolved address and
\* holds, once each and in host-list order, the resolved address of every
\* other host index whose address differs from host i's: an entry that
\* resolves to host i's address is left out with it.
C1_PeersAreOtherAddressed ==
    PeersComputed =>
        /\ OwnIp \notin Range(bPeers)
        /\ Len(bPeers) = Cardinality(OtherAddressed)
        /\ \A j \in OtherAddressed :
             bPeers[Cardinality({k \in OtherAddressed : k <= j})] = ips[j]

\* C1 witness: a host whose address another host shares has its peer list
\* computed, and the list is not empty.
C1_Witness ==
    /\ PeersComputed
    /\ \E j \in 1..Len(ips) : j # bIdx /\ ips[j] = OwnIp
    /\ bPeers # <<>>

\* C6: build_flood_commands returns the enter-interface command, then (in the
\* package, the program with the session transport) the clear-flood command,
\* then one add command per peer in input order, then exit, and nothing else.
C6_CommandSequenceExact ==
    CommandsBuilt =>
        LET lead == IF variant = "package" THEN 2 ELSE 1
        IN /\ Len(bCmds) = lead + Len(bPeers) + 1
           /\ bCmds[1] = <<"interface", "Vxlan1">>
           /\ variant = "package" => bCmds[2] = <<"no", "vxlan", "flood", "vtep">>
           /\ \A k \in 1..Len(bPeers) :
                bCmds[lead + k] = <<"vxlan", "flood", "vtep", bPeers[k]>>
           /\ bCmds[Len(bCmds)] = <<"exit">>

\* C6 witness: the commands for two different peers, in this order, are built.
C6_Witness ==
    /\ CommandsBuilt
    /\ Len(bPeers) = 2
    /\ bPeers[1] # bPeers[2]

BothRunsDone == bPc = <<"done", "second">>

\* C10 as stated: both runs generate the same command sequence, the sequence
\* leaves the device's flood list equal to the host's peer set whatever the
\* device held before, and the second run does not change the device.
C10_ReplacementIdempotent ==
    BothRunsDone =>
        /\ bCmds = bCmds1
        /\ bFlood1 = Range(bPeers)
        /\ bFlood = bFlood1

\* C10 amended: both runs generate the same command sequence and the second
\* run does not change the device; the first run leaves the flood list equal
\* to the host's peer set in the package, whose sequence clears the list
\* first, and equal to the prior entries plus the peer set in the script,
\* whose sequence only adds.
C10_IdempotentPerProgram ==
    BothRunsDone =>
        /\ bCmds = bCmds1
        /\ bFlood = bFlood1
        /\ variant = "package" => bFlood1 = Range(bPeers)
        /\ variant = "script" => bFlood1 = bPrior \cup Range(bPeers)

\* C10 witness: both runs are done on a package device that held an entry
\* which is no peer of the host.
C10_Witness ==
    /\ BothRunsDone
    /\ variant = "package"
    /\ bPrior \ Range(bPeers) # {}
    /\ bPeers # <<>>

\* ---- Spec: a run of main()

CallsMade == BagToSet(calls)

HostsFileFailed == \E k \in 1..Len(out) : out[k].kind = "hosts-file"

\* Every host was resolved: resolve_hosts has returned.
PreflightPassed ==
    /\ Len(hosts) >= 2
    /\ lookups = hosts
    /\ Len(ips) = Len(hosts)

MainEnded == pc = "end"

\* C2: in the package's coordinator, no exception of a single host's dispatch
\* leaves the result-collection loop or ends main(), and when main() is over
\* every host has had its line printed.
C2_PerHostFailuresContained ==
    variant = "package" =>
        /\ pc # "unwind"
        /\ rc # "exception"
        /\ (MainEnded /\ PreflightPassed) =>
              \A i \in 1..Len(hosts) : \E k \in 1..Len(out) : out[k].host = hosts[i]

\* C3: with at least two hosts, all resolved, main() returns 0 whatever the
\* dispatches' outcomes (connection refused, authentication failure, HTTP
\* error status, remote error output, success), and every host's own outcome
\* is printed.
C3_ReturnsZeroWhateverTheOutcomes ==
    PreflightPassed =>
        /\ rc \in {"none", "return 0"}
        /\ MainEnded =>
              /\ rc = "return 0"
              /\ \A i \in 1..Len(hosts) : \E k \in 1..Len(out) :
                    /\ out[k].host = hosts[i]
                    /\ out[k].kind \in {"result", "failed"}
                    /\ variant = "package" => out[k].text = futures[i].kind

LookupFailed == Len(lookups) > Len(ips)

\* C5: when a host does not resolve, the run ends with sys.exit(1) and an
\* error line naming that host, no later host is looked up, and no dispatch
\* is ever started; a dispatch is started only when the whole list resolved.
C5_UnresolvedHostEndsRun ==
    /\ LookupFailed =>
          /\ MainEnded
          /\ rc = "sys.exit(1)"
          /\ Len(lookups) = Len(ips) + 1
          /\ out # <<>>
          /\ out[Len(out)].stream = "stderr"
          /\ out[Len(out)].kind = "unresolved"
          /\ out[Len(out)].host = lookups[Len(lookups)]
          /\ cursor = 0
          /\ futures = <<>>
          /\ calls = EmptyBag
    /\ (cursor > 0 \/ futures # <<>> \/ calls # EmptyBag) =>
          /\ lookups = hosts
          /\ Len(ips) = Len(hosts)

\* C5 witness: the second host of the list did not resolve and the run is over.
C5_Witness ==
    /\ MainEnded
    /\ Len(lookups) = 2
    /\ Len(ips) = 1
    /\ Len(hosts) > 2

HasClear(commands) == <<"no", "vxlan", "flood", "vtep">> \in Range(commands)

\* C7 as stated: the clear-flood command is in the sequence sent to a host
\* when, and only when, the SSH transport sends it.
C7_ClearOnlyOverSsh ==
    \A c \in CallsMade : HasClear(c.commands) <=> c.fn = "send_ssh_commands"

\* C7 amended: the clear-flood command is the second command of every
\* sequence the package sends, over SSH and over eAPI alike; only the
\* script's sequences (enter-interface, adds, exit) are without it.
C7_ClearInEveryPackageSequence ==
    \A c \in CallsMade :
        /\ HasClear(c.commands) <=> variant = "package"
        /\ variant = "package" => c.commands[2] = <<"no", "vxlan", "flood", "vtep">>

\* C7 witness: the package has sent a sequence with the clear-flood command
\* over eAPI.
C7_Witness ==
    \E c \in CallsMade :
        /\ variant = "package"
        /\ c.fn = "send_eapi_commands"
        /\ HasClear(c.commands)

\* C8: the call made for host index i is given hosts[i], the run's username
\* and password, and the commands built from the peer list of host i.
C8_DispatchGetsOwnCommands ==
    \A c \in CallsMade :
        /\ c.idx \in 1..Len(hosts)
        /\ c.host = hosts[c.idx]
        /\ c.username = "admin"
        /\ c.password = "pass"
        /\ c.password = password
        /\ c.commands = build_flood_commands(variant, remote_vteps(ips, ips[c.idx]))

\* C8 witness: two workers are inside their transport calls at once, with
\* different commands.
C8_Witness ==
    \E c, d \in CallsMade :
        /\ variant = "package"
        /\ c.idx # d.idx
        /\ c.commands # d.commands
        /\ futures[c.idx].state = "running"
        /\ futures[d.idx].state = "running"

\* C9: no host is dispatched twice, and when main() is over after the
\* pre-flight checks passed, every host entry has been dispatched once.
C9_OneDispatchPerHost ==
    /\ \A c \in CallsMade :
          /\ CopiesIn(c, calls) = 1
          /\ \A d \in CallsMade : d.idx = c.idx => d = c
    /\ (MainEnded /\ PreflightPassed) =>
          \A i \in 1..Len(hosts) : \E c \in CallsMade : c.idx = i

\* C9 witness: main() is over with one failure line and one result line.
C9_Witness ==
    /\ MainEnded
    /\ PreflightPassed
    /\ \E k \in 1..Len(out) : out[k].kind = "failed"
    /\ \E k \in 1..Len(out) : out[k].kind = "result"

\* The result or failure line of host index j has been printed.
LinePrinted(j) ==
    \E k \in 1..Len(out) : out[k].kind \in {"result", "failed"} /\ out[k].host = hosts[j]

\* C11: while the dispatch of host h is in flight (and may never complete),
\* every other host's dispatch is not held up: it is still to be submitted by
\* the running comprehension, or a pool thread is free to start it, or it is
\* running, or it has completed and the collecting loop is there to print its
\* line, or its line is printed.
C11_HungStallsOnlyItself ==
    variant = "package" =>
        \A h \in 1..Len(futures) :
            futures[h].state = "running" =>
                \A j \in (1..Len(hosts)) \ {h} :
                    IF j > Len(futures)
                    THEN pc = "submit"
                    ELSE CASE futures[j].state = "pending" -> Cardinality(Running) < max_workers
                           [] futures[j].state = "running" -> TRUE
                           [] futures[j].state = "done"    -> pc \in {"submit", "collect"}
                           [] futures[j].state = "yielded" -> LinePrinted(j)

\* C13: at most one result line is being written at any time, and the thread
\* writing it is the one main() runs in, never a worker's.
C13_OneLineWrittenAtATime ==
    /\ Cardinality(writing) <= 1
    /\ writing \subseteq {"MainThread"}

\* C13 witness: a result line is being written while two workers are inside
\* their transport calls.
C13_Witness ==
    /\ writing # {}
    /\ Cardinality(Running) >= 2

IsResultLine(k) == out[k].kind \in {"result", "failed"}

\* C14: a line under host h is printed only when h's own dispatch has
\* completed and been taken from as_completed, it carries the outcome of the
\* transport call made to h and of no other host, and h has one line at most.
C14_LineAfterOwnCompletion ==
    \A k \in 1..Len(out) :
        IsResultLine(k) =>
            /\ out[k].from = out[k].host
            /\ \A l \in 1..Len(out) : (IsResultLine(l) /\ out[l].host = out[k].host) => l = k
            /\ \E c \in CallsMade : c.host = out[k].host
            /\ variant = "package" =>
                  \E i \in 1..Len(futures) :
                      /\ hosts[i] = out[k].host
                      /\ futures[i].state = "yielded"
                      /\ futures[i].kind = out[k].text
                      /\ out[k].kind = IF futures[i].kind = "ok" THEN "result" ELSE "failed"
                      /\ out[k].stream = IF futures[i].kind = "ok" THEN "stdout" ELSE "stderr"

\* C14 witness: the line of the second host submitted is printed before the
\* line of the first, and their outcomes differ.
C14_Witness ==
    /\ variant = "package"
    /\ \E k, l \in 1..Len(out) :
          /\ k < l
          /\ out[k].host = hosts[2]
          /\ out[l].host = hosts[1]
          /\ out[k].kind = "failed"
          /\ out[l].kind = "result"

\* C16: when the package's main() is over, by return or by an exception, no
\* submitted worker is waiting to run or inside its dispatch.
C16_NoExitWhileInFlight ==
    (variant = "package" /\ MainEnded) =>
        \A i \in 1..Len(futures) : futures[i].state \in {"done", "yielded"}

\* C16 witness: main() was left by an exception, and a worker that was still
\* to complete then has completed without its result being taken.
C16_Witness ==
    /\ variant = "package"
    /\ MainEnded
    /\ rc = "exception"
    /\ \E i \in 1..Len(futures) : futures[i].state = "done"

\* ---- SpecSsh: one call of send_ssh_commands

SshEnded == sPc = "end"

\* C12: when send_ssh_commands is over and its client had connected, the
\* client is closed, whether the function returned or raised.
C12_ClientClosedOnEveryPath ==
    SshEnded => sClient # "connected"

RECURSIVE SplitOn(_, _, _)
\* The parts of words between the occurrences of sep; acc is the part so far.
SplitOn(sep, words, acc) ==
    IF words = <<>> THEN <<acc>>
    ELSE IF Head(words) = sep THEN <<acc>> \o SplitOn(sep, Tail(words), <<>>)
    ELSE SplitOn(sep, Tail(words), Append(acc, Head(words)))

\* C15: the command given to exec_command is one invocation holding
\* 'configure terminal' and then the commands in order; when the call got to
\* its verdict, it raised RuntimeError carrying exactly the error text if
\* that text is not empty, whatever stdout held, and returned the captured
\* stdout if it is empty, whatever the exit status was.
C15_ErrorStreamDecides ==
    /\ sFullCmd # <<>> =>
          /\ SubSeq(sFullCmd, 1, 5) = <<"Cli", "-p", "15", "-c", "'">>
          /\ sFullCmd[Len(sFullCmd)] = "'"
          /\ SplitOn(";", SubSeq(sFullCmd, 6, Len(sFullCmd) - 1), <<>>)
                = <<(<<"configure", "terminal">>)>> \o sCommands
    /\ (SshEnded /\ sClient = "closed") =>
          /\ sStderr # "" => sResult = [how |-> "RuntimeError", value |-> sStderr]
          /\ sStderr = "" => sResult = [how |-> "returned", value |-> sStdout]

\* C15 witness: the call returned the captured stdout although the remote
\* command exited with a status that is not 0.
C15_Witness ==
    /\ SshEnded
    /\ sResult.how = "returned"
    /\ sResult.value # ""
    /\ sExit # 0
    /\ Len(sCommands) > 3

\* ---- Spec: the peers each dispatch was sent

\* The number of entries of seq that are equal to a.
Occurrences(seq, a) == Cardinality({k \in 1..Len(seq) : seq[k] = a})

\* The addresses the add commands of a command sequence name, in order.
AddedPeers(commands) ==
    LET adds == SelectSeq(commands,
                    LAMBDA cmd : Len(cmd) = 4 /\ SubSeq(cmd, 1, 3) = <<"vxlan", "flood", "vtep">>)
    IN  [k \in 1..Len(adds) |-> adds[k][4]]

\* C17: the commands dispatched to host i add every resolved address that
\* differs from host i's as many times as host entries resolve to it and
\* never host i's own, so they add n minus the number of entries resolving
\* to host i's address; two entries with the same address are sent identical
\* command sequences.
C17_SelfExclusionByValue ==
    \A c \in CallsMade :
        LET own == ips[c.idx]
            peers == AddedPeers(c.commands)
        IN  /\ Occurrences(peers, own) = 0
            /\ Len(peers) = Len(ips) - Occurrences(ips, own)
            /\ \A a \in Range(ips) \ {own} :
                 Occurrences(peers, a) = Occurrences(ips, a)
            /\ \A d \in CallsMade :
                 ips[d.idx] = own => d.commands = c.commands

\* C17 witness: two hosts that share an address and a third that does not
\* have all been dispatched, the third with the shared address added twice.
C17_Witness ==
    \E c, d, e \in CallsMade :
        /\ c.idx # d.idx
        /\ ips[c.idx] = ips[d.idx]
        /\ ips[e.idx] # ips[c.idx]
        /\ Occurrences(AddedPeers(e.commands), ips[c.idx]) = 2
        /\ Len(AddedPeers(c.commands)) = 1

====
